---- MODULE Spec2Model ----
(***************************************************************************)
(* A model of the XGE climate explorer: the Svelte stores (map, projects,  *)
(* filters, selected project), the MapContainer component that drives the  *)
(* map store, the ProjectMarkers component that reconciles markers with    *)
(* the filtered project list, the FilterControls component, and the pure   *)
(* validation functions.                                                   *)
(*                                                                         *)
(* Every handler is one action.  Svelte flushes the effects of a handler   *)
(* in a microtask, before any other event or timer callback runs, so the   *)
(* effect a store change triggers is part of the action that changes the   *)
(* store.                                                                  *)
(***************************************************************************)
EXTENDS Integers, Sequences, FiniteSets, TLC

(***************************************************************************)
(* Bounds of the model.                                                    *)
(***************************************************************************)
\* page mounts (each mount creates one map widget)
MaxMounts == 2
\* marker objects alive at the same time
MaxMarkers == 4
\* redraw timers pending at the same time
MaxRedraws == 1
\* map 'error' events delivered to one MapContainer
MaxErrorEvents == 12
\* closeModal focus timers pending at the same time
MaxFocusTimers == 2
\* calls of a debounced function
MaxCalls == 4
\* loadProjects calls in flight at the same time
MaxLoads == 2
\* elements of an array handed to validateProjects
MaxProjects == 3
\* FOCUS_DELAY timers of ProjectModal pending at the same time
MaxModalTimers == 1

(***************************************************************************)
(* JavaScript values: a tag and a payload.  NaN has its own tag so that    *)
(* two payloads of different kinds are never compared; TypeOf gives the    *)
(* result of typeof.                                                       *)
(***************************************************************************)
Undefined == [t |-> "undefined", v |-> "undefined"]
Null == [t |-> "null", v |-> "null"]
NaN == [t |-> "NaN", v |-> "NaN"]
Str(s) == [t |-> "string", v |-> s]
Num(n) == [t |-> "number", v |-> n]
Bool(b) == [t |-> "boolean", v |-> b]

TypeOf(x) ==
  CASE x.t = "NaN" -> "number"
    [] x.t = "null" -> "object"
    [] x.t = "array" -> "object"
    [] OTHER -> x.t

\* isNaN(x) for the values the model uses (a number or NaN)
IsNaN(x) == x.t = "NaN"

\* the boolean coercion of a value: !!x
Truthy(x) ==
  CASE x.t = "undefined" -> FALSE
    [] x.t = "null" -> FALSE
    [] x.t = "NaN" -> FALSE
    [] x.t = "string" -> x.v # ""
    [] x.t = "number" -> x.v # 0
    [] x.t = "boolean" -> x.v
    [] OTHER -> TRUE

\* an array value, and a value that is no array (a plain object)
Arr(items) == [t |-> "array", v |-> items]
Obj == [t |-> "object", v |-> "object"]
IsArray(x) == x.t = "array"
IsUndefined(x) == x.t = "undefined"

(***************************************************************************)
(* The map store (stores/map.ts).                                          *)
(***************************************************************************)
\* the null map reference
NoMap == 0
\* the null error
NoError == "<null>"

TimeoutMsg == "Map loading timeout. Please check your connection."
TilesMsg == "Map tiles are failing to load. Your Mapbox token may need additional permissions or URL restrictions updated."
TokenMissingText == "Mapbox access token is not configured properly. Please check your .env file."
TokenFormatText == "Invalid Mapbox access token format. Token should start with \"pk.\""
TokenMissingMsg == "Mapbox Token Error: Mapbox access token is not configured properly. Please check your .env file."
TokenFormatMsg == "Mapbox Token Error: Invalid Mapbox access token format. Token should start with \"pk.\""
FormatMsg == "Invalid Mapbox token format. Please check your .env file."
UnavailableMsg == "Map temporarily unavailable. Please try again."

mapInitialState ==
  [instance |-> NoMap, isLoaded |-> FALSE, error |-> NoError, isInteracting |-> FALSE]

\* setInstance that leaves the error as it is
setInstanceKeepError(s, m) == [s EXCEPT !.instance = m]

setInstance(s, m) == [s EXCEPT !.instance = m, !.error = NoError]

setLoaded(s, loaded) == [s EXCEPT !.isLoaded = loaded]

setErrorKeepLoaded(s, e) == [s EXCEPT !.error = e]

setError(s, e) == [s EXCEPT !.error = e, !.isLoaded = FALSE]

setInteracting(s, b) == [s EXCEPT !.isInteracting = b]

mapReset(s) == mapInitialState

(***************************************************************************)
(* Project records (data/projects.ts): three records of the bundled data,  *)
(* and the same data with a NaN longitude, which the Project type allows   *)
(* and updateMarkers guards against.                                       *)
(***************************************************************************)
Project(id, category, region, coords) ==
  [id |-> id, impactCategory |-> Str(category), region |-> Str(region), coordinates |-> coords]

projects ==
  << Project("two-billion-trees", "conservation", "north-america", Arr(<<Num(-106), Num(52)>>)),
     Project("travers-solar", "renewable-energy", "north-america", Arr(<<Num(-113), Num(50)>>)),
     Project("everwind-green-hydrogen", "renewable-energy", "north-america", Arr(<<Num(-63), Num(44)>>)) >>

projectsWithNaN ==
  << Project("two-billion-trees", "conservation", "north-america", Arr(<<Num(-106), Num(52)>>)),
     Project("travers-solar", "renewable-energy", "north-america", Arr(<<NaN, Num(50)>>)),
     Project("everwind-green-hydrogen", "renewable-energy", "north-america", Arr(<<Num(-63), Num(44)>>)) >>

Datasets == {projects, projectsWithNaN}

ProjectIds == {projects[i].id : i \in 1..Len(projects)}

(***************************************************************************)
(* The projects store (stores/projects.ts): all projects, its own filter   *)
(* state, and the derived filtered view.                                   *)
(***************************************************************************)
noFilters == [region |-> Null, impactCategory |-> Null]

projectsInitialState(data) == [allProjects |-> data, filters |-> noFilters]

\* the derived view without its impact-category filter
filteredProjectsRegionOnly(state) ==
  IF Truthy(state.filters.region)
    THEN LET byRegion(p) == p.region = state.filters.region
         IN SelectSeq(state.allProjects, byRegion)
    ELSE state.allProjects

\* the derived view; Array.prototype.filter is SelectSeq
filteredProjects(state) ==
  LET byRegion(p) == p.region = state.filters.region
      byCategory(p) == p.impactCategory = state.filters.impactCategory
      afterRegion == IF Truthy(state.filters.region)
                       THEN SelectSeq(state.allProjects, byRegion)
                       ELSE state.allProjects
  IN IF Truthy(state.filters.impactCategory)
       THEN SelectSeq(afterRegion, byCategory)
       ELSE afterRegion

projectsUpdateFilters(state, filters) == [state EXCEPT !.filters = filters]

setRegionFilter(state, region) == [state EXCEPT !.filters.region = region]

setImpactCategoryFilter(state, category) == [state EXCEPT !.filters.impactCategory = category]

clearFilters(state) == [state EXCEPT !.filters = noFilters]

(***************************************************************************)
(* The filters store (stores/filters.ts) and its debounced write-back.     *)
(* The debounce timer holds the arguments of the last call.                *)
(***************************************************************************)
filtersInitialState == [region |-> Null, impactCategory |-> Null]

noDebounce == [pending |-> FALSE, args |-> filtersInitialState]

\* a debounced update whose timer writes the initial state, not the state it was given
debouncedUpdateStale(newState) == [pending |-> TRUE, args |-> filtersInitialState]

\* debounce: clearTimeout, then setTimeout(() => func(...args), delay)
debouncedUpdate(newState) == [pending |-> TRUE, args |-> newState]

(***************************************************************************)
(* State.                                                                  *)
(***************************************************************************)
VARIABLES
  token,          \* PUBLIC_MAPBOX_ACCESS_TOKEN, fixed at build time
  originMode,     \* what the served style documents hold in metadata['mapbox:origin']
  mounted,        \* the page (MapContainer, ProjectMarkers, FilterControls) is mounted
  gen,            \* the number of mounts so far; the current map widget's identity
  mc,             \* MapContainer: map, isInitialized, isLoading, loadingTimeout, errorCount
  widget,         \* the Mapbox map widget the component created last
  listeners,      \* components whose handleResize is registered on window
  nullMapCalls,   \* history: components whose handleResize has run with map = null
  mapState,       \* the map store
  projectsState,  \* the projects store
  filtersState,   \* the filters store
  debounceTimer,  \* the filters store's debounce timer
  fc,             \* FilterControls: the two dropdown flags
  markers,        \* ProjectMarkers: project id -> marker, NoMarker without an entry
  onMap,          \* the markers attached to a map widget
  redraws,        \* the pending 10 ms redraw timers, oldest first
  selectedState,  \* the selected-project store
  focused,        \* document.activeElement
  focusTimers,    \* elements a pending setTimeout(..., 0) of closeModal will focus
  vProject,       \* the argument of the validation or error-handling function applied
  vResult,        \* its result
  dbTimers,       \* debounce: the pending timers of a debounced function, with their arguments
  dbTimeoutId,    \* debounce: timeoutId, 0 while undefined
  dbCalls,        \* the calls of the debounced function so far
  dbRuns,         \* the arguments func has run with so far
  dataStore,      \* the projects store with data loading (allProjects, isLoading, error, ...)
  dataLoads,      \* loadProjects calls waiting for their 100 ms timer
  boundary,       \* DataErrorBoundary: mounted, hasDataError, isLoading, errorMessage
  pm,             \* ProjectModal: modalElement (bound or not), previouslyFocusedElement
  pmTimers,       \* ProjectModal: pending FOCUS_DELAY timers
  focusHistory,   \* history: the element focused when the modal was opened, and whether
                  \* the modal has been closed since
  lastFilterCall  \* history: the last method of the filters store called directly, with
                  \* its argument

vars == << token, originMode, mounted, gen, mc, widget, listeners, nullMapCalls, mapState,
           projectsState,
           filtersState, debounceTimer, fc, markers, onMap, redraws, selectedState,
           focused, focusTimers, vProject, vResult, dbTimers, dbTimeoutId, dbCalls, dbRuns,
           dataStore, dataLoads, boundary, pm, pmTimers, focusHistory,
           lastFilterCall >>

mapVars == << token, originMode, mounted, gen, mc, widget, listeners, nullMapCalls, mapState >>
filterVars == << filtersState, debounceTimer, fc >>
markerVars == << markers, onMap, redraws >>
modalVars == << selectedState, focused, focusTimers >>
validationVars == << vProject, vResult >>
debounceVars == << dbTimers, dbTimeoutId, dbCalls, dbRuns >>
boundaryVars == << dataStore, dataLoads, boundary >>
pmVars == << pm, pmTimers, focusHistory >>
callVars == << lastFilterCall >>
otherVars == << debounceVars, boundaryVars, pmVars, callVars >>

(***************************************************************************)
(* MapContainer (components/MapContainer.svelte).                          *)
(***************************************************************************)
styleOptions ==
  << "mapbox://styles/mapbox/streets-v11",
     "mapbox://styles/mapbox/light-v10",
     "mapbox://styles/mapbox/outdoors-v11",
     "mapbox://styles/mapbox/satellite-v9" >>

ERROR_THRESHOLD == 10

Tokens == {"", "your_mapbox_access_token_here", "sk.test", "pk.test"}

\* String.prototype.startsWith('pk.') on the tokens above
StartsWithPk(tok) == tok = "pk.test"

\* String.prototype.includes on the messages of the errors initializeMap can catch
WebGLText == "Failed to initialize WebGL"
IncludesToken(msg) == msg \in {TokenMissingText, TokenFormatText}
IncludesFormat(msg) == msg \in {TokenFormatText}

\* the message validateMapboxToken throws with, NoError when it returns
validateMapboxToken(tok) ==
  IF tok = "" \/ tok = "your_mapbox_access_token_here" THEN TokenMissingText
  ELSE IF ~StartsWithPk(tok) THEN TokenFormatText
  ELSE NoError

\* the message handleInitializationError hands to mapStore.setError
initializationErrorMessage(msg) ==
  IF IncludesToken(msg) THEN (IF msg = TokenMissingText THEN TokenMissingMsg ELSE TokenFormatMsg)
  ELSE IF IncludesFormat(msg) THEN FormatMsg
  ELSE UnavailableMsg

\* clearTimeout(loadingTimeout): a pending timer is cancelled, anything else is left
clearTimeout(timer) == IF timer = "pending" THEN "cancelled" ELSE timer

mcInitial ==
  [map |-> NoMap, isInitialized |-> FALSE, isLoading |-> TRUE, timer |-> "none", errorCount |-> 0]

noWidget ==
  [id |-> NoMap, loaded |-> FALSE, removed |-> FALSE, style |-> "", styleCalls |-> << >>]

\* new mapboxgl.Map({style: styleOptions[0], ...})
newWidget(id) ==
  [id |-> id, loaded |-> FALSE, removed |-> FALSE, style |-> styleOptions[1], styleCalls |-> << >>]

OriginModes == {"absent", "name", "url"}

\* map.getStyle()?.metadata?.['mapbox:origin'] of the widget
styleOrigin(w, mode) ==
  CASE mode = "absent" -> Undefined
    [] mode = "name" -> Str("streets-v11")
    [] OTHER -> Str(w.style)

\* Array.prototype.findIndex over styleOptions: the 0-based index, -1 when absent
findStyleIndex(style) ==
  IF \E i \in 1..Len(styleOptions) : styleOptions[i] = style
    THEN (CHOOSE i \in 1..Len(styleOptions) : styleOptions[i] = style) - 1
    ELSE -1

\* the style attemptStyleFallback applies: styleOptions[currentIndex + 1], "" when undefined
nextFallbackStyle(w, mode) ==
  LET origin == styleOrigin(w, mode)
      currentStyle == IF Truthy(origin) THEN origin.v ELSE styleOptions[1]
      currentIndex == findStyleIndex(currentStyle)
  IN IF currentIndex + 2 \in 1..Len(styleOptions) THEN styleOptions[currentIndex + 2] ELSE ""

(***************************************************************************)
(* ProjectMarkers (components/ProjectMarkers.svelte).  A marker object is  *)
(* a number of 1..MaxMarkers that no live reference holds when it is       *)
(* created; onMap records the markers attached to a map, each with the     *)
(* project it was created for and the map it was added to.                 *)
(***************************************************************************)
NoMarker == 0

noMarkers == [k \in ProjectIds |-> NoMarker]

\* the coordinate checks of updateMarkers: an array of two numbers, neither NaN
validCoordinates(p) ==
  /\ IsArray(p.coordinates)
  /\ Len(p.coordinates.v) = 2
  /\ TypeOf(p.coordinates.v[1]) = "number"
  /\ TypeOf(p.coordinates.v[2]) = "number"
  /\ ~IsNaN(p.coordinates.v[1])
  /\ ~IsNaN(p.coordinates.v[2])

\* the marker objects some reference still holds
markersInUse(mk, om, rd) ==
  ({mk[k] : k \in ProjectIds} \ {NoMarker})
    \cup {r.id : r \in om}
    \cup {rd[i].existing : i \in 1..Len(rd)}

freshMarker(used) ==
  IF (1..MaxMarkers) \ used = {} THEN NoMarker
  ELSE CHOOSE m \in (1..MaxMarkers) \ used : \A n \in (1..MaxMarkers) \ used : m <= n

\* marker.remove(): detach the marker from whatever map it is on
removeMarker(om, m) == {r \in om : r.id # m}

\* updateMarkers, first loop: remove the markers of projects no longer in the list
removeObsolete(projs, st) ==
  LET currentProjectIds == {projs[i].id : i \in 1..Len(projs)}
      gone == {k \in ProjectIds : st.markers[k] # NoMarker /\ k \notin currentProjectIds}
  IN [st EXCEPT !.markers = [k \in ProjectIds |-> IF k \in gone THEN NoMarker ELSE st.markers[k]],
                !.onMap = {r \in st.onMap : r.id \notin {st.markers[k] : k \in gone}}]

\* updateMarkers, second loop: a marker for each project that had none
RECURSIVE addMissing(_, _, _, _, _, _)
addMissing(projs, i, st, existingMarkerIds, map, used) ==
  IF i > Len(projs) THEN st
  ELSE LET project == projs[i]
           m == freshMarker(used)
       IN IF project.id \in existingMarkerIds \/ ~validCoordinates(project)
            THEN addMissing(projs, i + 1, st, existingMarkerIds, map, used)
          ELSE IF m = NoMarker
            THEN [st EXCEPT !.overflow = TRUE]
          ELSE addMissing(projs, i + 1,
                 [st EXCEPT !.markers[project.id] = m,
                            !.onMap = @ \cup {[id |-> m, project |-> project.id, map |-> map]}],
                 existingMarkerIds, map, used \cup {m})

updateMarkersNoRemoval(projs, map, mk, om, used) ==
  addMissing(projs, 1, [markers |-> mk, onMap |-> om, overflow |-> FALSE],
             {k \in ProjectIds : mk[k] # NoMarker}, map, used)

\* updateMarkers that removes every marker and creates one for each project of the list
updateMarkersRecreate(projs, map, mk, om, used) ==
  IF map = NoMap THEN [markers |-> mk, onMap |-> om, overflow |-> FALSE]
  ELSE addMissing(projs, 1,
         [markers |-> noMarkers, onMap |-> {r \in om : r.id \notin {mk[k] : k \in ProjectIds}},
          overflow |-> FALSE],
         {}, map, used)

updateMarkers(projs, map, mk, om, used) ==
  IF map = NoMap THEN [markers |-> mk, onMap |-> om, overflow |-> FALSE]
  ELSE addMissing(projs, 1,
         removeObsolete(projs, [markers |-> mk, onMap |-> om, overflow |-> FALSE]),
         {k \in ProjectIds : mk[k] # NoMarker}, map, used)

\* the $effect: updateMarkers(filteredProjects) when the map store has a loaded instance
markerEffect(ms, ps, mk, om, rd) ==
  IF ms.instance # NoMap /\ ms.isLoaded
    THEN updateMarkers(filteredProjects(ps), ms.instance, mk, om, markersInUse(mk, om, rd))
    ELSE [markers |-> mk, onMap |-> om, overflow |-> FALSE]

\* the effect as the last step of a handler that wrote a store the effect reads; the
\* effect exists while ProjectMarkers is mounted
RunMarkerEffect(ms, ps) ==
  IF mounted
    THEN LET r == markerEffect(ms, ps, markers, onMap, redraws)
         IN /\ ~r.overflow
            /\ markers' = r.markers
            /\ onMap' = r.onMap
    ELSE UNCHANGED << markers, onMap >>

\* mouseleave on the element of a marker of the live map: schedule the redraw
Mouseleave ==
  /\ mounted
  /\ Len(redraws) < MaxRedraws
  /\ \E r \in onMap :
       /\ r.map = widget.id /\ ~widget.removed
       /\ mapState.instance # NoMap
       /\ markers[r.project] # NoMarker
       /\ redraws' = Append(redraws, [project |-> r.project, existing |-> markers[r.project],
                                      map |-> mapState.instance, comp |-> gen])
  /\ UNCHANGED << mapVars, projectsState, filterVars, markers, onMap, modalVars, validationVars, otherVars >>

\* the element createMarkerElement makes for a marker: one per Marker instance
MarkerElement(id) == "marker-" \o ToString(id)

\* the redraw timer fires: remove the marker captured at mouseleave, add a new one,
\* record it in the markers map of the component that scheduled the timer.  After
\* map.remove(), addTo(map) either attaches to the dead widget or throws.
RedrawFires ==
  /\ redraws # << >>
  /\ LET t == Head(redraws)
         removed == removeMarker(onMap, t.existing)
         m == freshMarker(markersInUse(markers, onMap, redraws))
         dead == t.map # widget.id \/ widget.removed
     IN /\ m # NoMarker
        /\ \E throws \in {FALSE, dead} :
             IF throws
               THEN /\ onMap' = removed
                    /\ UNCHANGED markers
               ELSE /\ onMap' = removed \cup {[id |-> m, project |-> t.project, map |-> t.map]}
                    /\ markers' = IF t.comp = gen
                                    THEN [markers EXCEPT ![t.project] = m]
                                    ELSE markers
  /\ redraws' = Tail(redraws)
  /\ focused' = IF focused = MarkerElement(Head(redraws).existing) THEN "body" ELSE focused
  /\ UNCHANGED << mapVars, projectsState, filterVars, selectedState, focusTimers,
                  validationVars, otherVars >>

(***************************************************************************)
(* MapContainer: the handlers.                                             *)
(***************************************************************************)
\* handleMapLoad without its clearTimeout
handleMapLoadKeepTimer(c) == [c EXCEPT !.isLoading = FALSE]

\* handleMapLoad: clearTimeout(loadingTimeout); isLoading = false
handleMapLoad(c) == [c EXCEPT !.timer = clearTimeout(@), !.isLoading = FALSE]

\* updateMapStore: setInstance(map), then setLoaded(true)
updateMapStore(s, map) == setLoaded(setInstance(s, map), TRUE)

\* the cleanup that leaves the loading timer running
cleanupKeepTimer(c) == [c EXCEPT !.map = NoMap, !.isInitialized = FALSE]

\* the $effect cleanup on the component's variables
cleanup(c) == [c EXCEPT !.timer = clearTimeout(@), !.map = NoMap, !.isInitialized = FALSE]

\* The page is mounted: fresh component instances.  MapContainer's $effect runs
\* initializeMap: validateMapboxToken, setupLoadingTimeout, createMapInstance, and
\* handleInitializationError for what they throw.  ProjectMarkers starts with an
\* empty markers map, FilterControls with both dropdowns closed.
Mount ==
  /\ ~mounted
  /\ gen < MaxMounts
  /\ mounted' = TRUE
  /\ gen' = gen + 1
  /\ LET thrown == validateMapboxToken(token)
     IN IF thrown # NoError
          THEN /\ mc' = [mcInitial EXCEPT !.isInitialized = TRUE, !.isLoading = FALSE]
               /\ mapState' = setError(mapState, initializationErrorMessage(thrown))
               /\ widget' = noWidget
          ELSE \E constructorThrows \in BOOLEAN :
                 IF constructorThrows
                   THEN /\ mc' = [mcInitial EXCEPT !.isInitialized = TRUE, !.isLoading = FALSE,
                                                   !.timer = clearTimeout("pending")]
                        /\ mapState' = setError(mapState, initializationErrorMessage(WebGLText))
                        /\ widget' = noWidget
                   ELSE /\ mc' = [mcInitial EXCEPT !.isInitialized = TRUE, !.timer = "pending",
                                                   !.map = gen + 1]
                        /\ mapState' = mapState
                        /\ widget' = newWidget(gen + 1)
  /\ markers' = noMarkers
  /\ fc' = [impactCategoryDropdownOpen |-> FALSE, regionDropdownOpen |-> FALSE]
  /\ UNCHANGED << nullMapCalls, token, originMode, listeners, projectsState, filtersState, debounceTimer,
                  onMap, redraws, modalVars, validationVars, otherVars >>

\* the widget's 'load' event: handleMapLoad
MapLoad ==
  /\ mounted
  /\ mc.map # NoMap
  /\ widget.id = mc.map /\ ~widget.loaded /\ ~widget.removed
  /\ widget' = [widget EXCEPT !.loaded = TRUE]
  /\ mc' = handleMapLoad(mc)
  /\ listeners' = listeners \cup {gen}
  /\ mapState' = updateMapStore(mapState, mc.map)
  /\ RunMarkerEffect(mapState', projectsState)
  /\ UNCHANGED << nullMapCalls, token, originMode, mounted, gen, projectsState, filterVars, redraws,
                  modalVars, validationVars, otherVars >>

\* the loading timer fires (setupLoadingTimeout's callback)
LoadingTimeoutFires ==
  /\ mc.timer = "pending"
  /\ IF mc.isLoading
       THEN /\ mapState' = setError(mapState, TimeoutMsg)
            /\ mc' = [mc EXCEPT !.timer = "fired", !.isLoading = FALSE]
       ELSE /\ mapState' = mapState
            /\ mc' = [mc EXCEPT !.timer = "fired"]
  /\ RunMarkerEffect(mapState', projectsState)
  /\ UNCHANGED << nullMapCalls, token, originMode, mounted, gen, widget, listeners, projectsState,
                  filterVars, redraws, modalVars, validationVars, otherVars >>

\* showCriticalError
showCriticalError(c) == [c EXCEPT !.timer = clearTimeout(@), !.isLoading = FALSE]

\* a filter that lets no event pass as a recoverable tile error
isRecoverableTileErrorNever(kind) == FALSE

\* isRecoverableTileError: the event carries a tile and an error
isRecoverableTileError(kind) == kind = "tile"

\* The widget's 'error' event: handleMapError.  kind is what the event carries:
\* "tile" (a tile and an error), "style" (an error whose message mentions style or
\* 404), "other".
MapError(kind) ==
  /\ mounted
  /\ mc.map # NoMap
  /\ widget.id = mc.map /\ ~widget.removed
  /\ mc.errorCount < MaxErrorEvents
  /\ LET errorCount == mc.errorCount + 1
         nextStyle == nextFallbackStyle(widget, originMode)
     IN IF isRecoverableTileError(kind)
          THEN /\ mc' = [mc EXCEPT !.errorCount = errorCount]
               /\ UNCHANGED << widget, mapState >>
        ELSE IF kind = "style" /\ nextStyle # ""
          THEN /\ mc' = [mc EXCEPT !.errorCount = errorCount]
               /\ widget' = [widget EXCEPT !.style = nextStyle,
                                           !.styleCalls = Append(@, nextStyle)]
               /\ UNCHANGED mapState
        ELSE IF errorCount > ERROR_THRESHOLD
          THEN /\ mc' = [showCriticalError(mc) EXCEPT !.errorCount = errorCount]
               /\ mapState' = setError(mapState, TilesMsg)
               /\ UNCHANGED widget
        ELSE /\ mc' = [mc EXCEPT !.errorCount = errorCount]
             /\ UNCHANGED << widget, mapState >>
  /\ RunMarkerEffect(mapState', projectsState)
  /\ UNCHANGED << nullMapCalls, token, originMode, mounted, gen, listeners, projectsState, filterVars,
                  redraws, modalVars, validationVars, otherVars >>

\* movestart / zoomstart and moveend / zoomend: handleInteractionStart / End
Interaction(interacting) ==
  /\ mounted
  /\ mc.map # NoMap
  /\ widget.id = mc.map /\ ~widget.removed
  /\ mapState' = setInteracting(mapState, interacting)
  /\ RunMarkerEffect(mapState', projectsState)
  /\ UNCHANGED << nullMapCalls, token, originMode, mounted, gen, mc, widget, listeners, projectsState,
                  filterVars, redraws, modalVars, validationVars, otherVars >>

\* the map variable of the component that registered a listener: its own map while
\* that component is the mounted one, null after its cleanup
mapOf(component) == IF mounted /\ component = gen THEN mc.map ELSE NoMap

\* The window's resize or orientationchange event: the handleResize of every
\* component that registered one runs map!.resize()
WindowResize ==
  /\ listeners # {}
  /\ nullMapCalls' = nullMapCalls \cup {g \in listeners : mapOf(g) = NoMap}
  /\ UNCHANGED << token, originMode, mounted, gen, mc, widget, listeners, mapState,
                  projectsState, filterVars, markerVars, modalVars, validationVars, otherVars >>

\* The page is destroyed: MapContainer's cleanup (clearTimeout, map.remove(), map = null,
\* isInitialized = false, mapStore.reset()) and ProjectMarkers' cleanup (remove every
\* marker of the markers map, clear the map).
Unmount ==
  /\ mounted
  /\ mounted' = FALSE
  /\ mc' = cleanup(mc)
  /\ widget' = IF mc.map # NoMap THEN [widget EXCEPT !.removed = TRUE] ELSE widget
  /\ mapState' = mapReset(mapState)
  /\ onMap' = {r \in onMap : r.id \notin {markers[k] : k \in ProjectIds}}
  /\ markers' = noMarkers
  /\ UNCHANGED << nullMapCalls, token, originMode, gen, listeners, projectsState, filterVars, redraws,
                  modalVars, validationVars, otherVars >>

(***************************************************************************)
(* The projects store's filter methods, called directly.  No component     *)
(* calls them; ProjectMarkers reads the store's filteredProjects, so its   *)
(* effect runs after each of them.                                         *)
(***************************************************************************)
RegionValues == {Null, Str(""), Str("north-america"), Str("europe")}
CategoryValues == {Null, Str(""), Str("conservation"), Str("renewable-energy"), Str("waste-management")}

\* the values the calls use while the markers are on the map: each filtered list they
\* give (every project, one category, none) is one the full sets give
MarkerRegionValues == {Null, Str("europe")}
MarkerCategoryValues == {Null, Str("conservation"), Str("renewable-energy")}

ProjectsCall(newState) ==
  /\ projectsState' = newState
  /\ UNCHANGED mapVars
  /\ RunMarkerEffect(mapState, newState)
  /\ UNCHANGED << filterVars, redraws, modalVars, validationVars, otherVars >>

ProjectsUpdateFilters ==
  \E r \in RegionValues, c \in CategoryValues :
    ProjectsCall(projectsUpdateFilters(projectsState, [region |-> r, impactCategory |-> c]))

ProjectsSetRegionFilter(values) ==
  \E r \in values : ProjectsCall(setRegionFilter(projectsState, r))

ProjectsSetImpactCategoryFilter(values) ==
  \E c \in values : ProjectsCall(setImpactCategoryFilter(projectsState, c))

ProjectsClearFilters == ProjectsCall(clearFilters(projectsState))

\* reset: set(initialState); initialState.allProjects is the bundled data the store holds
ProjectsReset == ProjectsCall(projectsInitialState(projectsState.allProjects))

(***************************************************************************)
(* The filters store's methods and FilterControls                          *)
(* (components/FilterControls.svelte).  Each setter computes newState,     *)
(* hands it to debouncedUpdate and returns it as the store's state.  No    *)
(* effect of ProjectMarkers reads the filters store.                       *)
(***************************************************************************)
impactCategories == <<"renewable-energy", "conservation", "sustainable-agriculture", "waste-management">>
regions == <<"north-america">>

filtersSetRegion(state, region) == [state EXCEPT !.region = region]
filtersSetImpactCategory(state, category) == [state EXCEPT !.impactCategory = category]
\* updateFilters merges a Partial<FilterState>: the keys it holds replace the state's
filtersUpdateFilters(state, filters) ==
  [region |-> IF "region" \in DOMAIN filters THEN filters.region ELSE state.region,
   impactCategory |-> IF "impactCategory" \in DOMAIN filters THEN filters.impactCategory
                                                             ELSE state.impactCategory]
filtersClear(state) == filtersInitialState

FiltersCall(newState) ==
  /\ filtersState' = newState
  /\ debounceTimer' = debouncedUpdate(newState)

noFilterCall == [method |-> "none", arg |-> << >>]

\* the filters store's methods called directly
FiltersApiCall(newState, method, arg) ==
  /\ FiltersCall(newState)
  /\ lastFilterCall' = [method |-> method, arg |-> arg]
  /\ UNCHANGED << mapVars, projectsState, fc, markerVars, modalVars, validationVars,
                  debounceVars, boundaryVars, pmVars >>

FilterRegionValues == {Null, Str(""), Str("north-america")}
FilterCategoryValues == {Null, Str(""), Str("conservation"), Str("renewable-energy")}

\* the Partial<FilterState> values: both keys, one key, no key
FilterPartials ==
  {[region |-> r, impactCategory |-> c] : r \in FilterRegionValues, c \in FilterCategoryValues}
    \cup {[region |-> r] : r \in FilterRegionValues}
    \cup {[impactCategory |-> c] : c \in FilterCategoryValues}
    \cup {<< >>}

FiltersSetRegion ==
  \E r \in FilterRegionValues :
    FiltersApiCall(filtersSetRegion(filtersState, r), "setRegion", [region |-> r])

FiltersSetImpactCategory ==
  \E c \in FilterCategoryValues :
    FiltersApiCall(filtersSetImpactCategory(filtersState, c), "setImpactCategory",
                   [impactCategory |-> c])

FiltersUpdateFilters ==
  \E filters \in FilterPartials :
    FiltersApiCall(filtersUpdateFilters(filtersState, filters), "updateFilters", filters)

FiltersClear == FiltersApiCall(filtersClear(filtersState), "clear", filtersInitialState)

\* reset: set(initialState); a pending debounce timer is left running
FiltersReset ==
  /\ filtersState' = filtersInitialState
  /\ UNCHANGED << mapVars, projectsState, debounceTimer, fc, markerVars, modalVars,
                  validationVars, otherVars >>

\* the debounce timer fires: set(newState)
DebounceFires ==
  /\ debounceTimer.pending
  /\ filtersState' = debounceTimer.args
  /\ debounceTimer' = [debounceTimer EXCEPT !.pending = FALSE]
  /\ UNCHANGED << mapVars, projectsState, fc, markerVars, modalVars, validationVars, otherVars >>

\* a count that looks at the region only
activeFilterCountRegionOnly(state) == IF Truthy(state.region) THEN 1 ELSE 0

activeFilterCount(state) ==
  (IF Truthy(state.region) THEN 1 ELSE 0) + (IF Truthy(state.impactCategory) THEN 1 ELSE 0)

\* the two dropdown buttons
ToggleDropdown ==
  /\ mounted
  /\ \/ fc' = [fc EXCEPT !.impactCategoryDropdownOpen = ~@]
     \/ fc' = [fc EXCEPT !.regionDropdownOpen = ~@]
  /\ UNCHANGED << mapVars, projectsState, filtersState, debounceTimer, markerVars, modalVars,
                  validationVars, otherVars >>

\* a click outside the dropdown containers
ClickOutside ==
  /\ mounted
  /\ fc.impactCategoryDropdownOpen \/ fc.regionDropdownOpen
  /\ fc' = [impactCategoryDropdownOpen |-> FALSE, regionDropdownOpen |-> FALSE]
  /\ UNCHANGED << mapVars, projectsState, filtersState, debounceTimer, markerVars, modalVars,
                  validationVars, otherVars >>

\* an option of the impact-category dropdown: toggleImpactCategory(category)
ToggleImpactCategory ==
  /\ mounted
  /\ fc.impactCategoryDropdownOpen
  /\ \E category \in {Null} \cup {Str(impactCategories[i]) : i \in 1..Len(impactCategories)} :
       IF filtersState.impactCategory = category
         THEN FiltersCall(filtersSetImpactCategory(filtersState, Null))
         ELSE FiltersCall(filtersSetImpactCategory(filtersState, category))
  /\ fc' = [fc EXCEPT !.impactCategoryDropdownOpen = FALSE]
  /\ UNCHANGED << mapVars, projectsState, markerVars, modalVars, validationVars, otherVars >>

\* an option of the region dropdown: toggleRegion(region)
ToggleRegion ==
  /\ mounted
  /\ fc.regionDropdownOpen
  /\ \E region \in {Null} \cup {Str(regions[i]) : i \in 1..Len(regions)} :
       IF filtersState.region = region
         THEN FiltersCall(filtersSetRegion(filtersState, Null))
         ELSE FiltersCall(filtersSetRegion(filtersState, region))
  /\ fc' = [fc EXCEPT !.regionDropdownOpen = FALSE]
  /\ UNCHANGED << mapVars, projectsState, markerVars, modalVars, validationVars, otherVars >>

\* the "Clear all" button, shown while a filter is active: clearAllFilters
ClearAllFilters ==
  /\ mounted
  /\ activeFilterCount(filtersState) > 0
  /\ FiltersCall(filtersClear(filtersState))
  /\ UNCHANGED << mapVars, projectsState, fc, markerVars, modalVars, validationVars, otherVars >>

\* the remove button of an active-filter chip
RemoveChip ==
  /\ mounted
  /\ \/ /\ Truthy(filtersState.impactCategory)
        /\ FiltersCall(filtersSetImpactCategory(filtersState, Null))
     \/ /\ Truthy(filtersState.region)
        /\ FiltersCall(filtersSetRegion(filtersState, Null))
  /\ UNCHANGED << mapVars, projectsState, fc, markerVars, modalVars, validationVars, otherVars >>

(***************************************************************************)
(* The selected-project store (stores/selectedProject.ts), its methods     *)
(* called directly, and the map store's methods called directly.           *)
(***************************************************************************)
NoProject == "<null>"
NoElement == "<null>"
Elements == {"body", "marker", "filter-button"}
\* the first element of the modal that matches FOCUSABLE_SELECTOR: its close button
ModalCloseButton == "modal-close-button"

\* the element is in the document: focus() on any other element does nothing
Attached(e) ==
  \/ e \in Elements
  \/ e = ModalCloseButton /\ pm.modalElement
  \/ \E r \in onMap : e = MarkerElement(r.id) /\ r.map = widget.id /\ ~widget.removed

selectedInitialState ==
  [selectedProject |-> NoProject, isOpen |-> FALSE, previousFocusElement |-> NoElement]

selectProjectKeepClosed(state, project, activeElement) ==
  [state EXCEPT !.selectedProject = project, !.previousFocusElement = activeElement]

selectProject(state, project, activeElement) ==
  [state EXCEPT !.selectedProject = project, !.isOpen = TRUE,
                !.previousFocusElement = activeElement]

closeModal(state) ==
  [state EXCEPT !.selectedProject = NoProject, !.isOpen = FALSE,
                !.previousFocusElement = NoElement]

\* selectedProjectStore.selectProject(project): document.activeElement is recorded
SelectProject ==
  /\ \E p \in ProjectIds : selectedState' = selectProject(selectedState, p, focused)
  /\ UNCHANGED << mapVars, projectsState, filterVars, markerVars, focused, focusTimers,
                  validationVars, otherVars >>

\* selectedProjectStore.closeModal(): a timer restores the focus when an element was recorded
CloseModal ==
  /\ selectedState' = closeModal(selectedState)
  /\ focusTimers' = IF selectedState.previousFocusElement # NoElement
                      THEN Append(focusTimers, selectedState.previousFocusElement)
                      ELSE focusTimers
  /\ Len(focusTimers') <= MaxFocusTimers
  /\ UNCHANGED << mapVars, projectsState, filterVars, markerVars, focused, validationVars, otherVars >>

\* the setTimeout(..., 0) of closeModal fires: previousFocusElement.focus()
FocusTimerFires ==
  /\ focusTimers # << >>
  /\ focused' = IF Attached(Head(focusTimers)) THEN Head(focusTimers) ELSE focused
  /\ focusTimers' = Tail(focusTimers)
  /\ UNCHANGED << mapVars, projectsState, filterVars, markerVars, selectedState, validationVars, otherVars >>

\* the user moves the focus to another element
FocusMoves ==
  /\ \E e \in Elements : e # focused /\ focused' = e
  /\ UNCHANGED << mapVars, projectsState, filterVars, markerVars, selectedState, focusTimers,
                  validationVars, otherVars >>

SelectedReset ==
  /\ selectedState' = selectedInitialState
  /\ UNCHANGED << mapVars, projectsState, filterVars, markerVars, focused, focusTimers,
                  validationVars, otherVars >>

MapInstances == 1..MaxMounts
ErrorValues == {NoError, TimeoutMsg, TilesMsg, UnavailableMsg}

MapStoreCall(newState) ==
  /\ ~mounted
  /\ mapState' = newState
  /\ UNCHANGED << nullMapCalls, token, originMode, mounted, gen, mc, widget, listeners, projectsState,
                  filterVars, markerVars, modalVars, validationVars, otherVars >>

MapStoreSetInstance == \E m \in MapInstances : MapStoreCall(setInstance(mapState, m))
MapStoreSetLoaded == \E b \in BOOLEAN : MapStoreCall(setLoaded(mapState, b))
MapStoreSetError == \E e \in ErrorValues : MapStoreCall(setError(mapState, e))
MapStoreSetInteracting == \E b \in BOOLEAN : MapStoreCall(setInteracting(mapState, b))
MapStoreReset == MapStoreCall(mapReset(mapState))

(***************************************************************************)
(* Validation (utils/validation.ts).  A project argument is a JavaScript   *)
(* value; an object carries its ten fields, an absent field is Undefined.  *)
(***************************************************************************)
VALID_IMPACT_CATEGORIES ==
  {"renewable-energy", "conservation", "sustainable-agriculture", "waste-management"}
VALID_REGIONS == {"north-america"}

ObjectOf(fields) == [t |-> "object", v |-> fields]

\* String.prototype.trim on the strings the inputs use
StrTrim(str) == IF str \in {"", " ", "   "} THEN "" ELSE str

\* new URL(url).protocol on the strings the inputs use; "" when the constructor throws
UrlProtocol(url) ==
  CASE url = "https://example.org/project" -> "https:"
    [] url = "http://example.org/project" -> "http:"
    [] OTHER -> ""

validateProjectUrl(url) == UrlProtocol(url) = "https:"

\* the date strings of the inputs that match /^\d{4}-\d{2}-\d{2}$/, with their digits read
IsoPatternDates ==
  [s \in {"2024-03-15", "2024-02-29", "2023-02-30", "2023-13-01", "2999-01-01"} |->
     CASE s = "2024-03-15" -> [y |-> 2024, m |-> 3, d |-> 15]
       [] s = "2024-02-29" -> [y |-> 2024, m |-> 2, d |-> 29]
       [] s = "2023-02-30" -> [y |-> 2023, m |-> 2, d |-> 30]
       [] s = "2023-13-01" -> [y |-> 2023, m |-> 13, d |-> 1]
       [] OTHER -> [y |-> 2999, m |-> 1, d |-> 1]]

MatchesIsoPattern(str) == str \in DOMAIN IsoPatternDates

IsLeapYear(y) == (y % 4 = 0 /\ y % 100 # 0) \/ y % 400 = 0

DaysInMonth(y, m) ==
  CASE m \in {4, 6, 9, 11} -> 30
    [] m = 2 -> IF IsLeapYear(y) THEN 29 ELSE 28
    [] OTHER -> 31

\* the calendar has the date: new Date(s) is a valid date whose toISOString gives s back
IsCalendarDate(date) == date.m \in 1..12 /\ date.d \in 1..DaysInMonth(date.y, date.m)

\* new Date(): the day the validation runs
Today == [y |-> 2026, m |-> 11, d |-> 4]

DateLE(a, b) ==
  \/ a.y < b.y
  \/ a.y = b.y /\ a.m < b.m
  \/ a.y = b.y /\ a.m = b.m /\ a.d <= b.d

validateISODate(dateString) ==
  IF ~MatchesIsoPattern(dateString) THEN FALSE
  ELSE LET date == IsoPatternDates[dateString]
       IN IsCalendarDate(date) /\ DateLE(date, Today)

\* !x || typeof x !== 'string' || x.trim().length === 0
NotNonEmptyString(x) ==
  ~Truthy(x) \/ TypeOf(x) # "string" \/ StrTrim(x.v) = ""

ValidationError(field, message) == [field |-> field, message |-> message]

Errors(cond, field, message) == IF cond THEN << ValidationError(field, message) >> ELSE << >>

\* the checks of id, title, description, impactCategory and region
requiredFieldErrors(proj) ==
  Errors(NotNonEmptyString(proj.id), "id", "Project id must be a non-empty string")
  \o Errors(NotNonEmptyString(proj.title), "title", "Project title must be a non-empty string")
  \o Errors(NotNonEmptyString(proj.description), "description",
            "Project description must be a non-empty string")
  \o Errors(~Truthy(proj.impactCategory)
              \/ ~(proj.impactCategory.t = "string" /\ proj.impactCategory.v \in VALID_IMPACT_CATEGORIES),
            "impactCategory", "Impact category must be one of: renewable-energy, conservation, sustainable-agriculture, waste-management")
  \o Errors(~Truthy(proj.region)
              \/ ~(proj.region.t = "string" /\ proj.region.v \in VALID_REGIONS),
            "region", "Region must be one of: north-america")

\* typeof x !== 'number' || x < lo || x > hi (every comparison with NaN is false)
OutOfRange(x, lo, hi) ==
  TypeOf(x) # "number" \/ (x.t = "number" /\ (x.v < lo \/ x.v > hi))

coordinateErrors(proj) ==
  IF ~IsArray(proj.coordinates)
    THEN << ValidationError("coordinates", "Coordinates must be an array") >>
  ELSE IF Len(proj.coordinates.v) # 2
    THEN << ValidationError("coordinates",
              "Coordinates must be an array of exactly 2 numbers [longitude, latitude]") >>
  ELSE Errors(OutOfRange(proj.coordinates.v[1], -180, 180), "coordinates[0]",
              "Longitude must be a number between -180 and 180")
       \o Errors(OutOfRange(proj.coordinates.v[2], -90, 90), "coordinates[1]",
                 "Latitude must be a number between -90 and 90")

urlErrors(proj) ==
  Errors(~IsUndefined(proj.url) /\ (TypeOf(proj.url) # "string" \/ ~validateProjectUrl(proj.url.v)),
         "url", "URL must be a valid HTTPS URL")

\* the business rule without its check on proj.url
verifiedErrorsNoUrl(proj) ==
  IF IsUndefined(proj.verified) THEN << >>
  ELSE IF TypeOf(proj.verified) # "boolean"
    THEN << ValidationError("verified", "Verified must be a boolean") >>
  ELSE IF proj.verified.v = TRUE
    THEN Errors(NotNonEmptyString(proj.source), "source",
                "Source is required when verified is true")
         \o Errors(~Truthy(proj.dateVerified) \/ TypeOf(proj.dateVerified) # "string"
                     \/ ~validateISODate(proj.dateVerified.v),
                   "dateVerified",
                   "Valid ISO date (YYYY-MM-DD) is required when verified is true")
  ELSE << >>

\* the business rule: verified projects must have supporting documentation
verifiedErrors(proj) ==
  IF IsUndefined(proj.verified) THEN << >>
  ELSE IF TypeOf(proj.verified) # "boolean"
    THEN << ValidationError("verified", "Verified must be a boolean") >>
  ELSE IF proj.verified.v = TRUE
    THEN Errors(~Truthy(proj.url), "url", "URL is required when verified is true")
         \o Errors(NotNonEmptyString(proj.source), "source",
                   "Source is required when verified is true")
         \o Errors(~Truthy(proj.dateVerified) \/ TypeOf(proj.dateVerified) # "string"
                     \/ ~validateISODate(proj.dateVerified.v),
                   "dateVerified",
                   "Valid ISO date (YYYY-MM-DD) is required when verified is true")
  ELSE << >>

optionalFieldErrors(proj) ==
  Errors(~IsUndefined(proj.source) /\ (TypeOf(proj.source) # "string" \/ StrTrim(proj.source.v) = ""),
         "source", "Source must be a non-empty string when provided")
  \o Errors(~IsUndefined(proj.dateVerified)
              /\ (TypeOf(proj.dateVerified) # "string" \/ ~validateISODate(proj.dateVerified.v)),
            "dateVerified", "Date verified must be a valid ISO date (YYYY-MM-DD) when provided")

validateProject(project) ==
  IF ~Truthy(project) \/ TypeOf(project) # "object"
    THEN [isValid |-> FALSE,
          errors |-> << ValidationError("project", "Project must be an object") >>]
  ELSE LET proj == project.v
           errors == requiredFieldErrors(proj) \o coordinateErrors(proj) \o urlErrors(proj)
                       \o verifiedErrors(proj) \o optionalFieldErrors(proj)
       IN [isValid |-> errors = << >>, errors |-> errors]

\* the arguments validateProject is applied to: a well-formed record, with one of the
\* required fields spoiled or none, and every combination of the four optional fields
goodFields ==
  [id |-> Str("two-billion-trees"), title |-> Str("2 Billion Trees Program"),
   description |-> Str("Planting two billion trees"), impactCategory |-> Str("conservation"),
   region |-> Str("north-america"), coordinates |-> Arr(<<Num(-106), Num(52)>>),
   url |-> Undefined, verified |-> Undefined, source |-> Undefined, dateVerified |-> Undefined]

RequiredVariants ==
  { goodFields,
    [goodFields EXCEPT !.id = Str("   ")],
    [goodFields EXCEPT !.title = Undefined],
    [goodFields EXCEPT !.description = Str("")],
    [goodFields EXCEPT !.impactCategory = Str("fishing")],
    [goodFields EXCEPT !.region = Str("europe")],
    [goodFields EXCEPT !.coordinates = Obj],
    [goodFields EXCEPT !.coordinates = Arr(<<Num(-106)>>)],
    [goodFields EXCEPT !.coordinates = Arr(<<Num(-200), Num(52)>>)],
    [goodFields EXCEPT !.coordinates = Arr(<<Num(-106), Str("52")>>)] }

UrlInputs == {Undefined, Null, Str(""), Str("https://example.org/project"),
              Str("http://example.org/project")}
VerifiedInputs == {Undefined, Null, Bool(TRUE), Bool(FALSE), Str("yes")}
SourceInputs == {Undefined, Str(""), Str("   "), Str("Natural Resources Canada"), Num(7)}
DateInputs == {Undefined, Null, Str("2024-03-15"), Str("2024-02-29"), Str("2023-02-30"),
               Str("2999-01-01"), Str("15/03/2024")}

ValidationInputs ==
  {Null, Str("two-billion-trees")}
    \cup { ObjectOf([f EXCEPT !.url = u, !.verified = v, !.source = src, !.dateVerified = d]) :
             f \in RequiredVariants, u \in UrlInputs, v \in VerifiedInputs,
             src \in SourceInputs, d \in DateInputs }

NoResult == [isValid |-> FALSE, errors |-> << >>]

\* validateProject(vProject)
Validate ==
  /\ vResult = NoResult
  /\ vResult' = validateProject(vProject)
  /\ UNCHANGED << mapVars, projectsState, filterVars, markerVars, modalVars, vProject, otherVars >>

\* projects[${index}].${field}
IndexedField(index, field) == [index |-> index, field |-> field]

\* the errors of one element, with their indexed paths and messages
RECURSIVE indexedErrors(_, _, _)
indexedErrors(errors, index, k) ==
  IF k > Len(errors) THEN << >>
  ELSE << [field |-> IndexedField(index, errors[k].field),
           message |-> [kind |-> "Project", index |-> index, text |-> errors[k].message]] >>
       \o indexedErrors(errors, index, k + 1)

\* validateProjects, first forEach: validateProject on every element
RECURSIVE elementErrors(_, _)
elementErrors(items, index) ==
  IF index > Len(items) THEN << >>
  ELSE LET result == validateProject(items[index])
       IN (IF result.isValid THEN << >> ELSE indexedErrors(result.errors, index - 1, 1))
          \o elementErrors(items, index + 1)

\* project && typeof project === 'object' && 'id' in project && typeof id === 'string'
HasStringId(project) ==
  /\ Truthy(project) /\ TypeOf(project) = "object"
  /\ project.t = "object" /\ ~IsUndefined(project.v.id)
  /\ TypeOf(project.v.id) = "string"

\* validateProjects, second forEach: the ids seen so far, an error for each id seen again
RECURSIVE duplicateErrors(_, _, _)
duplicateErrors(items, index, ids) ==
  IF index > Len(items) THEN << >>
  ELSE IF ~HasStringId(items[index]) THEN duplicateErrors(items, index + 1, ids)
  ELSE LET id == items[index].v.id.v
       IN IF id \in ids
            THEN << [field |-> IndexedField(index - 1, "id"),
                     message |-> [kind |-> "Duplicate project ID", index |-> index - 1,
                                  text |-> id]] >>
                 \o duplicateErrors(items, index + 1, ids)
            ELSE duplicateErrors(items, index + 1, ids \cup {id})

\* validateProjects without its duplicate-id pass
validateProjectsNoDuplicates(projs) ==
  IF ~IsArray(projs)
    THEN [isValid |-> FALSE,
          errors |-> << [field |-> IndexedField(-1, "projects"),
                         message |-> [kind |-> "Projects must be an array", index |-> -1,
                                      text |-> ""]] >>]
  ELSE LET errors ==
             (IF Len(projs.v) = 0
                THEN << [field |-> IndexedField(-1, "projects"),
                         message |-> [kind |-> "Projects array cannot be empty", index |-> -1,
                                      text |-> ""]] >>
                ELSE << >>)
             \o elementErrors(projs.v, 1)
       IN [isValid |-> Len(errors) = 0, errors |-> errors]

validateProjects(projs) ==
  IF ~IsArray(projs)
    THEN [isValid |-> FALSE,
          errors |-> << [field |-> IndexedField(-1, "projects"),
                         message |-> [kind |-> "Projects must be an array", index |-> -1,
                                      text |-> ""]] >>]
  ELSE LET errors ==
             (IF Len(projs.v) = 0
                THEN << [field |-> IndexedField(-1, "projects"),
                         message |-> [kind |-> "Projects array cannot be empty", index |-> -1,
                                      text |-> ""]] >>
                ELSE << >>)
             \o elementErrors(projs.v, 1)
             \o duplicateErrors(projs.v, 1, {})
       IN [isValid |-> Len(errors) = 0, errors |-> errors]

\* the elements of the arrays validateProjects is applied to: two well-formed records,
\* a well-formed record that repeats the id of the first, a record with that id and no
\* title, a record whose id is a number, and two values that are no records
ProjectElements ==
  { ObjectOf(goodFields),
    ObjectOf([goodFields EXCEPT !.id = Str("travers-solar")]),
    ObjectOf([goodFields EXCEPT !.description = Str("The same id again")]),
    ObjectOf([goodFields EXCEPT !.title = Undefined]),
    ObjectOf([goodFields EXCEPT !.id = Num(7)]),
    Null,
    Str("two-billion-trees") }

RECURSIVE SeqsUpTo(_, _)
SeqsUpTo(S, n) ==
  IF n = 0 THEN {<< >>}
  ELSE LET shorter == SeqsUpTo(S, n - 1)
       IN shorter \cup {Append(q, x) : q \in {r \in shorter : Len(r) = n - 1}, x \in S}

ProjectsInputs == {Null, Str("projects")} \cup {Arr(q) : q \in SeqsUpTo(ProjectElements, MaxProjects)}

\* validateProjects(vProject)
ValidateProjects ==
  /\ vResult = NoResult
  /\ vResult' = validateProjects(vProject)
  /\ UNCHANGED << mapVars, projectsState, filterVars, markerVars, modalVars, vProject, otherVars >>

(***************************************************************************)
(* handleError (utils/errors.ts).  An Error object is its class, its       *)
(* message and its cause; instanceof follows the class chain.              *)
(***************************************************************************)
ErrorSeverity == [LOW |-> "low", MEDIUM |-> "medium", HIGH |-> "high", CRITICAL |-> "critical"]

ErrorClasses == {"ProjectDataError", "ValidationError", "MapError", "Error", "TypeError"}

ErrorObject(class, message, cause) ==
  [t |-> "error", v |-> [class |-> class, message |-> message, cause |-> cause]]

\* every class of the application, and TypeError, extends Error
ClassChain(class) == {class, "Error"}

InstanceOf(value, class) == value.t = "error" /\ class \in ClassChain(value.v.class)

\* createErrorInfo, without its timestamp
createErrorInfo(message, severity, context, cause) ==
  [message |-> message, severity |-> severity, context |-> context, cause |-> cause]

NoContext == "<undefined>"
NoCause == "<undefined>"

\* context ? { context } : undefined
contextRecord(context) == IF context \in {NoContext, ""} THEN NoContext ELSE context

\* handleError without its MapError branch
handleErrorNoMapError(error, context) ==
  IF InstanceOf(error, "ProjectDataError")
    THEN createErrorInfo("Project data error: " \o error.v.message, ErrorSeverity.HIGH,
                         contextRecord(context), error.v.cause)
  ELSE IF InstanceOf(error, "ValidationError")
    THEN createErrorInfo("Validation error: " \o error.v.message, ErrorSeverity.MEDIUM,
                         contextRecord(context), NoCause)
  ELSE IF InstanceOf(error, "Error")
    THEN createErrorInfo(error.v.message, ErrorSeverity.MEDIUM, contextRecord(context), "self")
  ELSE createErrorInfo("An unknown error occurred", ErrorSeverity.MEDIUM,
                       contextRecord(context), NoCause)

handleError(error, context) ==
  IF InstanceOf(error, "ProjectDataError")
    THEN createErrorInfo("Project data error: " \o error.v.message, ErrorSeverity.HIGH,
                         contextRecord(context), error.v.cause)
  ELSE IF InstanceOf(error, "ValidationError")
    THEN createErrorInfo("Validation error: " \o error.v.message, ErrorSeverity.MEDIUM,
                         contextRecord(context), NoCause)
  ELSE IF InstanceOf(error, "MapError")
    THEN createErrorInfo("Map error: " \o error.v.message, ErrorSeverity.HIGH,
                         contextRecord(context), error.v.cause)
  ELSE IF InstanceOf(error, "Error")
    THEN createErrorInfo(error.v.message, ErrorSeverity.MEDIUM, contextRecord(context), "self")
  ELSE createErrorInfo("An unknown error occurred", ErrorSeverity.MEDIUM,
                       contextRecord(context), NoCause)

\* what is thrown and caught: Error objects of every class, and values that are no Error
ErrorInputs ==
  { ErrorObject(c, m, k) : c \in ErrorClasses, m \in {"", "boom", "Invalid projects data format"},
                           k \in {NoCause, "inner"} }
    \cup {Null, Undefined, Str("boom"), Num(404), Bool(FALSE)}

Contexts == {NoContext, "", "Projects Loading", "Map"}

\* handleError(vProject, context)
HandleError ==
  /\ vResult = NoResult
  /\ \E context \in Contexts : vResult' = handleError(vProject, context)
  /\ UNCHANGED << mapVars, projectsState, filterVars, markerVars, modalVars, vProject, otherVars >>

(***************************************************************************)
(* debounce (utils/index.ts): one debounced function.  A timer is its id   *)
(* and the arguments its callback passes to func; every timer has the same *)
(* delay, so the pending timers fire oldest first.                         *)
(***************************************************************************)
DebounceArgs == {"a", "b", "c"}

\* clearTimeout(timeoutId) on the set of pending timers
clearTimeoutId(timers, id) == {t \in timers : t.id # id}

\* the debounced function without its clearTimeout
debouncedKeepTimer(timers, id) == timers

\* the debounced function, first statement: clearTimeout(timeoutId)
debounced(timers, id) == clearTimeoutId(timers, id)

\* a call of the debounced function: clearTimeout(timeoutId); timeoutId = setTimeout(...)
DebouncedCall ==
  /\ Len(dbCalls) < MaxCalls
  /\ \E args \in DebounceArgs :
       LET id == Len(dbCalls) + 1
       IN /\ dbTimers' = debounced(dbTimers, dbTimeoutId) \cup {[id |-> id, args |-> args]}
          /\ dbTimeoutId' = id
          /\ dbCalls' = Append(dbCalls, [args |-> args, pending |-> dbTimers # {}])
  /\ UNCHANGED << mapVars, projectsState, filterVars, markerVars, modalVars, pmVars, callVars, validationVars,
                  dbRuns, boundaryVars >>

\* the oldest pending timer fires: func(...args)
DebounceTimerFires ==
  /\ dbTimers # {}
  /\ LET t == CHOOSE x \in dbTimers : \A y \in dbTimers : x.id <= y.id
     IN /\ dbRuns' = Append(dbRuns, t.args)
        /\ dbTimers' = dbTimers \ {t}
  /\ UNCHANGED << mapVars, projectsState, filterVars, markerVars, modalVars, pmVars, callVars, validationVars,
                  dbTimeoutId, dbCalls, boundaryVars >>

(***************************************************************************)
(* The projects store with data loading (stores/projects.ts, the version   *)
(* DataErrorBoundary reads) and DataErrorBoundary                          *)
(* (components/DataErrorBoundary.svelte).                                  *)
(***************************************************************************)
dataInitialState ==
  [allProjects |-> << >>, filters |-> noFilters, isLoading |-> FALSE, error |-> Null,
   lastUpdated |-> FALSE]

\* what the data module holds when loadProjects reads it: the bundled array, an array
\* with a record without id, an array with a null element, or no array
DataModules == {"projects", "missing-id", "null-element", "no-array"}

dataOf(module) ==
  CASE module = "projects" -> projects
    [] module = "missing-id" -> << [projects[1] EXCEPT !.id = ""], projects[2] >>
    [] OTHER -> << >>

\* the message of the error loadProjects catches, "" when nothing is thrown
loadThrows(module) ==
  CASE module = "no-array" -> "Invalid projects data format"
    [] module = "null-element" -> "Cannot read properties of null (reading 'id')"
    [] OTHER -> ""

\* the filter of loadProjects: id and coordinates present (every record has a title)
validProjects(data) ==
  LET valid(p) == p.id # "" /\ Truthy(p.coordinates)
  IN SelectSeq(data, valid)

\* loadProjects, up to its await
loadStart(state) == [state EXCEPT !.isLoading = TRUE, !.error = Null]

\* loadProjects, after its await; handleError gives a plain Error its own message
loadFinish(state, module) ==
  IF loadThrows(module) = ""
    THEN [state EXCEPT !.allProjects = validProjects(dataOf(module)), !.isLoading = FALSE,
                       !.error = Null, !.lastUpdated = TRUE]
    ELSE [state EXCEPT !.allProjects = << >>, !.isLoading = FALSE,
                       !.error = Str(loadThrows(module)), !.lastUpdated = FALSE]

dataClearError(state) == [state EXCEPT !.error = Null]

boundaryInitial ==
  [mounted |-> TRUE, hasDataError |-> FALSE, isLoading |-> TRUE, errorMessage |-> ""]

noBoundary ==
  [mounted |-> FALSE, hasDataError |-> FALSE, isLoading |-> TRUE, errorMessage |-> ""]

\* the store monitor that never raises the error flag
boundaryEffectNoError(b, store) ==
  IF Len(store.allProjects) >= 0
    THEN [b EXCEPT !.hasDataError = FALSE, !.isLoading = FALSE]
    ELSE b

\* the $effect that monitors the store
boundaryEffect(b, store) ==
  IF Truthy(store.error)
    THEN [b EXCEPT !.hasDataError = TRUE, !.errorMessage = store.error.v, !.isLoading = FALSE]
  ELSE IF Len(store.allProjects) >= 0
    THEN [b EXCEPT !.hasDataError = FALSE, !.isLoading = FALSE]
  ELSE b

\* the branch of the template that is rendered
boundaryView(b) ==
  IF b.isLoading THEN "loading" ELSE IF b.hasDataError THEN "error" ELSE "children"

\* a change of the store: the effect of a mounted boundary runs after it
DataStoreChange(b, newState) ==
  /\ dataStore' = newState
  /\ boundary' = IF b.mounted THEN boundaryEffect(b, newState) ELSE b

\* DataErrorBoundary is mounted: the effect runs, and onMount loads the projects when
\* the store holds none and no error
BoundaryMount ==
  /\ ~boundary.mounted
  /\ IF Len(dataStore.allProjects) = 0 /\ ~Truthy(dataStore.error)
       THEN /\ dataLoads < MaxLoads
            /\ dataLoads' = dataLoads + 1
            /\ DataStoreChange(boundaryInitial, loadStart(dataStore))
       ELSE /\ UNCHANGED dataLoads
            /\ DataStoreChange(boundaryInitial, dataStore)
  /\ UNCHANGED << mapVars, projectsState, filterVars, markerVars, modalVars, pmVars, callVars, validationVars,
                  debounceVars >>

BoundaryUnmount ==
  /\ boundary.mounted
  /\ boundary' = noBoundary
  /\ UNCHANGED << mapVars, projectsState, filterVars, markerVars, modalVars, pmVars, callVars, validationVars,
                  debounceVars, dataStore, dataLoads >>

\* the 100 ms timer of a loadProjects call fires: the rest of loadProjects
LoadResolves ==
  /\ dataLoads > 0
  /\ dataLoads' = dataLoads - 1
  /\ \E module \in DataModules : DataStoreChange(boundary, loadFinish(dataStore, module))
  /\ UNCHANGED << mapVars, projectsState, filterVars, markerVars, modalVars, pmVars, callVars, validationVars,
                  debounceVars >>

\* the "Retry Loading" button of the error state: retryDataLoad
RetryDataLoad ==
  /\ boundary.mounted
  /\ boundaryView(boundary) = "error"
  /\ dataLoads < MaxLoads
  /\ dataLoads' = dataLoads + 1
  /\ DataStoreChange([boundary EXCEPT !.hasDataError = FALSE, !.isLoading = TRUE,
                                      !.errorMessage = ""],
                     loadStart(dataStore))
  /\ UNCHANGED << mapVars, projectsState, filterVars, markerVars, modalVars, pmVars, callVars, validationVars,
                  debounceVars >>

\* projectsStore.clearError() and projectsStore.reset(), called directly
DataClearError ==
  /\ DataStoreChange(boundary, dataClearError(dataStore))
  /\ UNCHANGED << mapVars, projectsState, filterVars, markerVars, modalVars, pmVars, callVars, validationVars,
                  debounceVars, dataLoads >>

DataReset ==
  /\ DataStoreChange(boundary, dataInitialState)
  /\ UNCHANGED << mapVars, projectsState, filterVars, markerVars, modalVars, pmVars, callVars, validationVars,
                  debounceVars, dataLoads >>

\* the filter methods of this store, called directly
DataUpdateFilters ==
  /\ \E r \in FilterRegionValues, c \in FilterCategoryValues :
       DataStoreChange(boundary, projectsUpdateFilters(dataStore, [region |-> r, impactCategory |-> c]))
  /\ UNCHANGED << mapVars, projectsState, filterVars, markerVars, modalVars, pmVars, callVars, validationVars,
                  debounceVars, dataLoads >>

DataClearFilters ==
  /\ DataStoreChange(boundary, clearFilters(dataStore))
  /\ UNCHANGED << mapVars, projectsState, filterVars, markerVars, modalVars, pmVars, callVars, validationVars,
                  debounceVars, dataLoads >>

(***************************************************************************)
(* ProjectModal (components/ProjectModal.svelte) and the marker elements   *)
(* that open it.                                                           *)
(***************************************************************************)
pmInitial == [modalElement |-> FALSE, previouslyFocusedElement |-> NoElement]

\* the focus-management $effect, after a change of isOpen: when the modal has just been
\* rendered it records document.activeElement (and starts the FOCUS_DELAY timer); it
\* does not run again while isOpen stays true
modalEffect(p, wasOpen, isOpen, activeElement) ==
  IF isOpen /\ ~wasOpen
    THEN [p EXCEPT !.modalElement = TRUE, !.previouslyFocusedElement = activeElement]
  ELSE IF ~isOpen THEN [p EXCEPT !.modalElement = FALSE]
  ELSE p

\* restoreFocus: previouslyFocusedElement.focus(), the result is document.activeElement
restoreFocus(p, activeElement) ==
  IF p.previouslyFocusedElement # NoElement /\ Attached(p.previouslyFocusedElement)
    THEN p.previouslyFocusedElement
    ELSE activeElement

\* a click, Enter or Space on a marker of the map: the marker element has the focus and
\* handleClick selects its project; the modal is rendered when it was closed.  A 0 ms
\* timer of the store's closeModal has fired before the next input of the user.
MarkerActivate ==
  /\ mounted
  /\ focusTimers = << >>
  /\ \E r \in onMap :
       /\ r.map = widget.id /\ ~widget.removed
       /\ LET el == MarkerElement(r.id)
              opens == ~selectedState.isOpen
          IN /\ focused' = el
             /\ selectedState' = selectProject(selectedState, r.project, el)
             /\ pm' = modalEffect(pm, selectedState.isOpen, TRUE, el)
             /\ pmTimers' = IF opens THEN pmTimers + 1 ELSE pmTimers
             /\ pmTimers' <= MaxModalTimers
             /\ focusHistory' = IF opens THEN [openedFrom |-> el, closing |-> FALSE]
                                         ELSE focusHistory
  /\ UNCHANGED << mapVars, projectsState, filterVars, markerVars, focusTimers, validationVars,
                  debounceVars, boundaryVars, callVars >>

\* the FOCUS_DELAY timer of the effect fires: the first focusable element of the modal
\* gets the focus, nothing happens when the modal is gone
ModalFocusTimerFires ==
  /\ pmTimers > 0
  /\ pmTimers' = pmTimers - 1
  /\ focused' = IF pm.modalElement THEN ModalCloseButton ELSE focused
  /\ UNCHANGED << mapVars, projectsState, filterVars, markerVars, selectedState, focusTimers,
                  validationVars, debounceVars, boundaryVars, callVars, pm, focusHistory >>

\* Escape, a click on the backdrop or a close button: closeModal of the component, which
\* calls the store's closeModal and restoreFocus; the modal then leaves the document
ModalClose ==
  /\ selectedState.isOpen
  /\ focusTimers = << >>
  /\ selectedState' = closeModal(selectedState)
  /\ focusTimers' = IF selectedState.previousFocusElement # NoElement
                      THEN Append(focusTimers, selectedState.previousFocusElement)
                      ELSE focusTimers
  /\ Len(focusTimers') <= MaxFocusTimers
  /\ LET restored == restoreFocus(pm, focused)
     IN focused' = IF restored = ModalCloseButton THEN "body" ELSE restored
  /\ pm' = [modalEffect(pm, TRUE, FALSE, focused) EXCEPT !.previouslyFocusedElement = NoElement]
  /\ focusHistory' = [focusHistory EXCEPT !.closing = TRUE]
  /\ UNCHANGED << mapVars, projectsState, filterVars, markerVars, validationVars,
                  debounceVars, boundaryVars, callVars, pmTimers >>

(***************************************************************************)
(* Specifications.                                                         *)
(***************************************************************************)
InitWith(tokens, modes, datasets, inputs) ==
  /\ token \in tokens
  /\ originMode \in modes
  /\ mounted = FALSE
  /\ gen = 0
  /\ mc = mcInitial
  /\ widget = noWidget
  /\ listeners = {}
  /\ nullMapCalls = {}
  /\ mapState = mapInitialState
  /\ projectsState \in {projectsInitialState(d) : d \in datasets}
  /\ filtersState = filtersInitialState
  /\ debounceTimer = noDebounce
  /\ fc = [impactCategoryDropdownOpen |-> FALSE, regionDropdownOpen |-> FALSE]
  /\ markers = noMarkers
  /\ onMap = {}
  /\ redraws = << >>
  /\ selectedState = selectedInitialState
  /\ focused = "body"
  /\ focusTimers = << >>
  /\ vProject \in inputs
  /\ vResult = NoResult
  /\ dbTimers = {}
  /\ dbTimeoutId = 0
  /\ dbCalls = << >>
  /\ dbRuns = << >>
  /\ dataStore = dataInitialState
  /\ dataLoads = 0
  /\ boundary = noBoundary
  /\ pm = pmInitial
  /\ pmTimers = 0
  /\ focusHistory = [openedFrom |-> NoElement, closing |-> FALSE]
  /\ lastFilterCall = noFilterCall

\* the application as the user drives it
Init == InitWith({"pk.test"}, {"absent"}, {projects}, {Null})

Next ==
  \/ Mount
  \/ MapLoad
  \/ LoadingTimeoutFires
  \/ \E b \in BOOLEAN : Interaction(b)
  \/ Unmount
  \/ ToggleDropdown
  \/ ClickOutside
  \/ ToggleImpactCategory
  \/ ToggleRegion
  \/ ClearAllFilters
  \/ RemoveChip
  \/ DebounceFires
  \/ Mouseleave
  \/ RedrawFires

Spec == Init /\ [][Next]_vars

\* the application with the projects store's filter methods called directly
InitApi == InitWith({"pk.test"}, {"absent"}, Datasets, {Null})

NextApi ==
  \/ Mount
  \/ MapLoad
  \/ LoadingTimeoutFires
  \/ Unmount
  \/ ProjectsSetRegionFilter(MarkerRegionValues)
  \/ ProjectsSetImpactCategoryFilter(MarkerCategoryValues)
  \/ ProjectsClearFilters
  \/ Mouseleave
  \/ RedrawFires

SpecApi == InitApi /\ [][NextApi]_vars

\* MapContainer and the map widget's events, for every token and style metadata
InitMap == InitWith(Tokens, OriginModes, {projects}, {Null})

NextMap ==
  \/ Mount
  \/ MapLoad
  \/ LoadingTimeoutFires
  \/ \E kind \in {"tile", "style", "other"} : MapError(kind)
  \/ \E b \in BOOLEAN : Interaction(b)
  \/ WindowResize
  \/ Unmount

SpecMap == InitMap /\ [][NextMap]_vars

\* the map store's and the selected-project store's methods called directly
InitStores == InitWith({"pk.test"}, {"absent"}, {projects}, {Null})

NextStores ==
  \/ MapStoreSetInstance
  \/ MapStoreSetLoaded
  \/ MapStoreSetError
  \/ MapStoreSetInteracting
  \/ MapStoreReset
  \/ SelectProject
  \/ CloseModal
  \/ FocusTimerFires
  \/ FocusMoves
  \/ SelectedReset

SpecStores == InitStores /\ [][NextStores]_vars

\* the projects store's and the filters store's methods called directly
InitFilters == InitWith({"pk.test"}, {"absent"}, Datasets, {Null})

NextFilters ==
  \/ ProjectsUpdateFilters
  \/ ProjectsSetRegionFilter(RegionValues)
  \/ ProjectsSetImpactCategoryFilter(CategoryValues)
  \/ ProjectsClearFilters
  \/ ProjectsReset
  \/ FiltersSetRegion
  \/ FiltersSetImpactCategory
  \/ FiltersUpdateFilters
  \/ FiltersClear
  \/ FiltersReset
  \/ DebounceFires

SpecFilters == InitFilters /\ [][NextFilters]_vars

\* the filters store's setters and its debounce timer, in every order
InitFilterCalls == InitWith({"pk.test"}, {"absent"}, {projects}, {Null})

NextFilterCalls ==
  \/ FiltersSetRegion
  \/ FiltersSetImpactCategory
  \/ FiltersUpdateFilters
  \/ FiltersClear
  \/ DebounceFires

SpecFilterCalls == InitFilterCalls /\ [][NextFilterCalls]_vars

\* the filter controls of the mounted page, driven by the user
InitControls == InitWith({"pk.test"}, {"absent"}, {projects}, {Null})

NextControls ==
  \/ Mount
  \/ Unmount
  \/ ToggleDropdown
  \/ ClickOutside
  \/ ToggleImpactCategory
  \/ ToggleRegion
  \/ ClearAllFilters
  \/ RemoveChip
  \/ DebounceFires

SpecControls == InitControls /\ [][NextControls]_vars

\* validateProject applied to each of its inputs
InitValidate == InitWith({"pk.test"}, {"absent"}, {projects}, ValidationInputs)

NextValidate == Validate

SpecValidate == InitValidate /\ [][NextValidate]_vars

\* one debounced function, called and left to fire in every order
InitDebounce == InitWith({"pk.test"}, {"absent"}, {projects}, {Null})

NextDebounce ==
  \/ DebouncedCall
  \/ DebounceTimerFires

SpecDebounce == InitDebounce /\ [][NextDebounce]_vars

\* DataErrorBoundary over the projects store with data loading
InitBoundary == InitWith({"pk.test"}, {"absent"}, {projects}, {Null})

NextBoundary ==
  \/ BoundaryMount
  \/ BoundaryUnmount
  \/ LoadResolves
  \/ RetryDataLoad
  \/ DataClearError
  \/ DataReset
  \/ DataUpdateFilters
  \/ DataClearFilters

SpecBoundary == InitBoundary /\ [][NextBoundary]_vars

\* handleError applied to each of its inputs
InitHandleError == InitWith({"pk.test"}, {"absent"}, {projects}, ErrorInputs)

NextHandleError == HandleError

SpecHandleError == InitHandleError /\ [][NextHandleError]_vars

\* ProjectModal opened from the markers of a loaded map and closed again
InitModal == InitWith({"pk.test"}, {"absent"}, {projects}, {Null})

NextModal ==
  \/ Mount
  \/ MapLoad
  \/ Mouseleave
  \/ RedrawFires
  \/ MarkerActivate
  \/ ModalFocusTimerFires
  \/ ModalClose
  \/ FocusTimerFires

SpecModal == InitModal /\ [][NextModal]_vars

\* validateProjects applied to each of its inputs
InitValidateAll == InitWith({"pk.test"}, {"absent"}, {projects}, ProjectsInputs)

NextValidateAll == ValidateProjects

SpecValidateAll == InitValidateAll /\ [][NextValidateAll]_vars

(***************************************************************************)
(* Properties.                                                             *)
(***************************************************************************)
\* the project ids the markers map has an entry for
MarkerIds(mk) == {k \in ProjectIds : mk[k] # NoMarker}

\* the ids of the projects of a list that have two numeric coordinates
DisplayableIds(projs) ==
  {projs[i].id : i \in {j \in 1..Len(projs) : validCoordinates(projs[j])}}

\* the map store holds a loaded map
MapReady(ms) == ms.instance # NoMap /\ ms.isLoaded

\* C1: whenever a handler of the mounted page changes the map store or the projects
\* store and leaves the map store with an instance and isLoaded true, updateMarkers has
\* run for the filtered list, and the project ids of the markers map are exactly the
\* ids of the filtered projects that have two numeric coordinates.
C1_MarkersMatchFiltered ==
  [][(/\ mounted /\ mounted'
      /\ (mapState' # mapState \/ projectsState' # projectsState)
      /\ MapReady(mapState'))
     => MarkerIds(markers') = DisplayableIds(filteredProjects(projectsState'))]_vars

\* a filter change on a loaded map, with a project whose longitude is NaN in the list
C1_Witness ==
  /\ mounted /\ MapReady(mapState)
  /\ projectsState.allProjects = projectsWithNaN
  /\ projectsState.filters.impactCategory = Str("renewable-energy")
  /\ MarkerIds(markers) = {"everwind-green-hydrogen"}
  /\ \E r \in onMap : r.project = "everwind-green-hydrogen" /\ r.map = mapState.instance

\* the projects that match what the filter controls picked (the filters store)
PickedProjects ==
  LET picked(p) == /\ (Truthy(filtersState.region) => p.region = filtersState.region)
                   /\ (Truthy(filtersState.impactCategory)
                         => p.impactCategory = filtersState.impactCategory)
  IN SelectSeq(projectsState.allProjects, picked)

C3_LoadingTimeout ==
  /\ [](mc.timer # "fired" => mapState.error # TimeoutMsg)
  /\ [][(~widget.loaded /\ widget'.loaded /\ mc.timer = "pending")
          => mc'.timer = "cancelled"]_vars
  /\ [][mc.timer = "cancelled" => mc'.timer # "fired"]_vars
  /\ [][(mc.timer = "pending" /\ mc'.timer = "fired" /\ mc.isLoading)
          => (mapState'.error = TimeoutMsg /\ ~mc'.isLoading)]_vars

\* the map loaded before the timer fired
C3_Witness ==
  /\ mounted /\ widget.loaded
  /\ mc.timer = "cancelled" /\ ~mc.isLoading
  /\ MapReady(mapState) /\ mapState.error = NoError

\* C4: the styles attemptStyleFallback applies are the entries of styleOptions after
\* the first, in list order, each at most once: at most 3 fallbacks for 4 styles.
C4_ProgressiveFallback ==
  /\ Len(widget.styleCalls) <= Len(styleOptions) - 1
  /\ \A i \in 1..Len(widget.styleCalls) : widget.styleCalls[i] = styleOptions[i + 1]

\* C5: after the cleanup of MapContainer the loading timer is not pending, the widget
\* the component created is removed and the map store is at its initial state, and
\* nothing changes the map store while the page stays unmounted.
C5_Teardown ==
  /\ []((~mounted /\ gen > 0)
          => /\ mc.timer # "pending"
             /\ (widget.id # NoMap => widget.removed)
             /\ mapState = mapInitialState)
  /\ [][(~mounted /\ ~mounted') => mapState' = mapState]_vars

\* the page is torn down while the map is still loading
C5_Witness ==
  /\ ~mounted /\ gen > 0
  /\ widget.id # NoMap /\ ~widget.loaded /\ widget.removed
  /\ mc.timer = "cancelled" /\ mc.isLoading

\* C6: for every state of the map store and every e, null included, setError(e) gives
\* error = e and isLoaded = false and keeps instance and isInteracting.
C6_SetError ==
  \A e \in ErrorValues :
    LET s == setError(mapState, e)
    IN /\ s.error = e
       /\ s.isLoaded = FALSE
       /\ s.instance = mapState.instance
       /\ s.isInteracting = mapState.isInteracting

\* setError has acted on a store that held a loaded, interacting map
C6_Witness ==
  /\ mapState.error = TimeoutMsg
  /\ ~mapState.isLoaded
  /\ mapState.instance # NoMap
  /\ mapState.isInteracting

NonNull(x) == x.t # "null"
NonNullNonEmpty(x) == x.t # "null" /\ x # Str("")

\* the sub-sequence of allProjects whose fields equal the filters that are non-null
SubSequenceNonNull(state) ==
  LET keep(p) == /\ (NonNull(state.filters.region) => p.region = state.filters.region)
                 /\ (NonNull(state.filters.impactCategory)
                       => p.impactCategory = state.filters.impactCategory)
  IN SelectSeq(state.allProjects, keep)

\* the sub-sequence of allProjects whose fields equal the filters that are neither null
\* nor the empty string
SubSequenceNonEmpty(state) ==
  LET keep(p) == /\ (NonNullNonEmpty(state.filters.region) => p.region = state.filters.region)
                 /\ (NonNullNonEmpty(state.filters.impactCategory)
                       => p.impactCategory = state.filters.impactCategory)
  IN SelectSeq(state.allProjects, keep)

\* C7 as stated: filteredProjects is the sub-sequence of allProjects, in order, whose
\* region equals the region filter when it is non-null and whose impactCategory equals
\* the category filter when it is non-null.
C7_FilteredProjectsNonNull ==
  filteredProjects(projectsState) = SubSequenceNonNull(projectsState)

\* C7, amended: filteredProjects is the sub-sequence of allProjects, in order, whose
\* region equals the region filter when it is neither null nor the empty string and
\* whose impactCategory equals the category filter when it is neither null nor the
\* empty string.
C7_FilteredProjects ==
  filteredProjects(projectsState) = SubSequenceNonEmpty(projectsState)

\* an empty region filter and a category filter that two of three projects match
C7_Witness ==
  /\ projectsState.filters.region = Str("")
  /\ projectsState.filters.impactCategory = Str("renewable-energy")
  /\ Len(filteredProjects(projectsState)) = 2
  /\ Len(projectsState.allProjects) = 3

C9_ModalOpenIffSelected ==
  /\ selectedState.isOpen <=> selectedState.selectedProject # NoProject
  /\ \A p \in ProjectIds :
       LET s == selectProject(selectedState, p, focused)
       IN s.selectedProject = p /\ s.isOpen = TRUE
  /\ LET s == closeModal(selectedState)
     IN s.selectedProject = NoProject /\ s.isOpen = FALSE

\* a project was selected while another element had the focus
C9_Witness ==
  /\ selectedState.isOpen
  /\ selectedState.selectedProject = "travers-solar"
  /\ selectedState.previousFocusElement = "marker"

IsTrue(x) == x.t = "boolean" /\ x.v = TRUE
IsFalse(x) == x.t = "boolean" /\ x.v = FALSE
IsStr(x, str) == x.t = "string" /\ x.v = str

\* the record has an error for the field
HasErrorFor(result, field) == \E i \in 1..Len(result.errors) : result.errors[i].field = field

\* a url, a non-empty source string and a YYYY-MM-DD date of the calendar are present
DocumentationPresent(proj) ==
  /\ Truthy(proj.url)
  /\ proj.source.t = "string" /\ StrTrim(proj.source.v) # ""
  /\ proj.dateVerified.t = "string" /\ MatchesIsoPattern(proj.dateVerified.v)
  /\ IsCalendarDate(IsoPatternDates[proj.dateVerified.v])

\* C10: a record with verified === true is reported invalid unless a url, a non-empty
\* source string and a valid YYYY-MM-DD dateVerified are all present; with verified
\* false or absent, an absent url, source or dateVerified adds no error for that field.
C10_VerifiedRule ==
  (vResult # NoResult /\ vProject.t = "object") =>
    LET proj == vProject.v
    IN /\ (IsTrue(proj.verified) /\ ~DocumentationPresent(proj)) => ~vResult.isValid
       /\ (IsUndefined(proj.verified) \/ IsFalse(proj.verified)) =>
            \A f \in {"url", "source", "dateVerified"} :
              IsUndefined(proj[f]) => ~HasErrorFor(vResult, f)

\* a verified record whose only fault is the missing url
C10_Witness ==
  /\ vProject.t = "object"
  /\ IsTrue(vProject.v.verified)
  /\ IsUndefined(vProject.v.url)
  /\ IsStr(vProject.v.source, "Natural Resources Canada")
  /\ IsStr(vProject.v.dateVerified, "2024-03-15")
  /\ ~vResult.isValid
  /\ Len(vResult.errors) = 1
  /\ vResult.errors[1].field = "url"

\* the positions of an array whose element repeats the string id of an earlier element
RepeatedIdPositions(items) ==
  {i \in 1..Len(items) :
     /\ HasStringId(items[i])
     /\ \E j \in 1..(i - 1) : HasStringId(items[j]) /\ items[j].v.id.v = items[i].v.id.v}

\* the positions of the 'Duplicate project ID' errors of a result, 1-based
DuplicateErrorPositions(result) ==
  {result.errors[k].message.index + 1 :
     k \in {n \in 1..Len(result.errors) :
              result.errors[n].message.kind = "Duplicate project ID"}}

\* C11: for every array, validateProjects gives isValid = true exactly when the array
\* is non-empty, every element passes validateProject and no two elements share a
\* string id; the result has one 'Duplicate project ID' error for each element that
\* repeats the id of an earlier one, and for no other element.
C11_ValidateProjects ==
  (vResult # NoResult /\ IsArray(vProject)) =>
    LET items == vProject.v
        duplicates == {k \in 1..Len(vResult.errors) :
                         vResult.errors[k].message.kind = "Duplicate project ID"}
    IN /\ vResult.isValid <=>
            /\ Len(items) > 0
            /\ \A i \in 1..Len(items) : validateProject(items[i]).isValid
            /\ RepeatedIdPositions(items) = {}
       /\ DuplicateErrorPositions(vResult) = RepeatedIdPositions(items)
       /\ Cardinality(duplicates) = Cardinality(RepeatedIdPositions(items))

\* three well-formed records of which the second and the third repeat the first's id
C11_Witness ==
  /\ IsArray(vProject) /\ Len(vProject.v) = 3
  /\ \A i \in 1..3 : validateProject(vProject.v[i]).isValid
  /\ RepeatedIdPositions(vProject.v) = {2, 3}
  /\ ~vResult.isValid
  /\ Len(vResult.errors) = 2

\* the bursts so far: the calls that arrived with no timer pending
Bursts == {i \in 1..Len(dbCalls) : ~dbCalls[i].pending}

\* C12: a call that arrives while a timer is pending replaces that timer, so at most
\* one timer is pending; when a timer fires, func runs with the arguments of the last
\* call and no timer is left, so func runs once for each burst, after the burst's last
\* call, and never with the arguments of an earlier call of the burst.
C12_Debounce ==
  /\ [](Cardinality(dbTimers) <= 1)
  /\ [](Len(dbRuns) + Cardinality(dbTimers) = Cardinality(Bursts))
  /\ [][dbRuns' # dbRuns
          => /\ dbRuns' = Append(dbRuns, dbCalls[Len(dbCalls)].args)
             /\ dbTimers' = {}]_vars

\* a burst of three calls with three different arguments, after which func ran once
C12_Witness ==
  /\ Len(dbCalls) = 3
  /\ dbCalls[1].args = "a" /\ dbCalls[2].args = "b" /\ dbCalls[3].args = "c"
  /\ dbCalls[2].pending /\ dbCalls[3].pending
  /\ dbRuns = << "c" >>
  /\ dbTimers = {}

\* C13: while DataErrorBoundary is mounted, a non-null error of the projects store means
\* the boundary renders the data-error state with that message, and the children are
\* rendered only while the store's error is null.
C13_BoundaryShowsStoreError ==
  boundary.mounted =>
    /\ dataStore.error # Null
         => /\ boundaryView(boundary) = "error"
            /\ boundary.errorMessage = dataStore.error.v
    /\ boundaryView(boundary) = "children" => dataStore.error = Null

\* a load failed under a mounted boundary
C13_Witness ==
  /\ boundary.mounted
  /\ dataStore.error = Str("Invalid projects data format")
  /\ boundaryView(boundary) = "error"
  /\ dataLoads = 0

\* C14: once the modal has been closed, and until it is opened again, the focus is on
\* the element that had it when the modal was opened (the user does not move the focus
\* in between).
C14_CloseRestoresFocus ==
  focusHistory.closing => focused = focusHistory.openedFrom

\* the value is an ErrorInfo record
IsErrorInfo(r) == DOMAIN r = {"message", "severity", "context", "cause"}

\* C15: handleError returns an ErrorInfo for every input; its severity is HIGH for a
\* ProjectDataError and a MapError and MEDIUM for a ValidationError, any other Error and
\* any value that is no Error, whose message is 'An unknown error occurred'; the
\* severity is never LOW or CRITICAL.
C15_HandleErrorSeverity ==
  IsErrorInfo(vResult) =>
    /\ vResult.severity \notin {"low", "critical"}
    /\ IF vProject.t = "error"
         THEN vResult.severity = IF vProject.v.class \in {"ProjectDataError", "MapError"}
                                   THEN "high" ELSE "medium"
         ELSE /\ vResult.severity = "medium"
              /\ vResult.message = "An unknown error occurred"

C15_Witness ==
  /\ IsErrorInfo(vResult)
  /\ vProject.t = "error"
  /\ vProject.v.class = "MapError"
  /\ vResult.severity = "high"
  /\ vResult.message = "Map error: boom"

\* the ids of the projects of a list
ListIds(projs) == {projs[i].id : i \in 1..Len(projs)}

\* C16: when a call of the projects store changes the store, a project that is in the
\* filtered list before and after keeps its marker instance on the map; a marker leaves
\* the markers map only when its project left the list, and a marker enters it only for
\* a project that had none.
C16_UpdateMarkersIncremental ==
  [][projectsState' # projectsState =>
       \A k \in ProjectIds :
         /\ ( /\ k \in ListIds(filteredProjects(projectsState))
              /\ k \in ListIds(filteredProjects(projectsState'))
              /\ markers[k] # NoMarker )
              => /\ markers'[k] = markers[k]
                 /\ {r \in onMap' : r.id = markers[k]} = {r \in onMap : r.id = markers[k]}
         /\ (markers[k] # NoMarker /\ markers'[k] # markers[k])
              => /\ markers'[k] = NoMarker
                 /\ k \notin ListIds(filteredProjects(projectsState'))
         /\ (markers'[k] # NoMarker /\ markers'[k] # markers[k])
              => markers[k] = NoMarker]_vars

\* after a filter change on a loaded map the two projects that stayed in the list have
\* the markers they got when the map loaded, and the project that left has none
C16_Witness ==
  /\ mounted /\ MapReady(mapState)
  /\ projectsState.allProjects = projects
  /\ projectsState.filters.impactCategory = Str("renewable-energy")
  /\ redraws = << >>
  /\ markers["two-billion-trees"] = NoMarker
  /\ markers["travers-solar"] = 2
  /\ markers["everwind-green-hydrogen"] = 3
  /\ {r.id : r \in onMap} = {2, 3}

\* C17: every marker on the live map is the one the markers map records for its
\* project, so a project has at most one marker on the map and none is orphaned.
C17_NoOrphanOrDuplicate ==
  \A r \in onMap :
    (r.map = widget.id /\ ~widget.removed) => markers[r.project] = r.id

\* C18: when a redraw timer fires after the marker it captured has been removed (by a
\* filter change or by the teardown), the callback adds no marker to a map and no entry
\* to the markers map.
C18_RedrawNeverRevives ==
  [][( /\ redraws # << >>
       /\ redraws' = Tail(redraws)
       /\ ~\E r \in onMap : r.id = Head(redraws).existing )
     => /\ onMap' \subseteq onMap
        /\ markers' = markers]_vars

\* C19: the map store's error becomes the tiles message only in a step that leaves
\* MapContainer with more than ERROR_THRESHOLD error events counted, and an error event
\* that carries a tile changes neither the map store nor isLoading.
C19_TilesErrorThreshold ==
  [][ /\ (mapState'.error = TilesMsg /\ mapState.error # TilesMsg)
           => mc'.errorCount > ERROR_THRESHOLD
      /\ MapError("tile") => (mapState' = mapState /\ mc'.isLoading = mc.isLoading) ]_vars

\* the tiles message has been set by the event after the threshold, tile events among
\* the earlier ones
C19_Witness ==
  /\ mounted
  /\ mapState.error = TilesMsg
  /\ mc.errorCount = ERROR_THRESHOLD + 1
  /\ ~mc.isLoading

\* C20: while MapContainer drives the map store, a non-null error implies isLoaded is
\* false.
C20_ErrorImpliesNotLoaded ==
  mapState.error # NoError => ~mapState.isLoaded

\* a map that had loaded is in error after the error events passed the threshold
C20_Witness ==
  /\ mounted
  /\ mapState.instance # NoMap
  /\ mapState.error = TilesMsg
  /\ ~mapState.isLoaded

\* C21: a load event that arrives after the loading timer has fired and set the timeout
\* error leaves the map store with the instance of the component's map, isLoaded true
\* and error null.
C21_LateLoadClearsTimeout ==
  [][( /\ ~widget.loaded /\ widget'.loaded
       /\ mc.timer = "fired"
       /\ mapState.error = TimeoutMsg )
     => /\ mapState'.instance = mc.map
        /\ mapState'.instance # NoMap
        /\ mapState'.isLoaded
        /\ mapState'.error = NoError]_vars

\* the map has loaded after its loading timer fired, and no error event came since
C21_Witness ==
  /\ mounted /\ widget.loaded
  /\ mc.timer = "fired" /\ ~mc.isLoading
  /\ mc.errorCount = 0
  /\ MapReady(mapState) /\ mapState.error = NoError

\* C22: no callback the component registered runs against the null map: no
\* handleResize has called resize() on a map reference that the cleanup set to null.
C22_NoCallbackOnNullMap ==
  nullMapCalls = {}

\* C23: with the four setters of the filters store and the debounce timer in any order,
\* the store holds what the last call asked for (before and after the timer fires),
\* a pending timer holds the store's current value, and the step in which the timer
\* fires leaves the store's value as it is.
C23_SettersNeverLost ==
  /\ [](lastFilterCall.method # "none"
          => \A k \in DOMAIN lastFilterCall.arg : filtersState[k] = lastFilterCall.arg[k])
  /\ [](debounceTimer.pending => debounceTimer.args = filtersState)
  /\ [][(debounceTimer.pending /\ ~debounceTimer'.pending)
          => filtersState' = filtersState]_vars

\* the timer has fired after setRegion followed setImpactCategory
C23_Witness ==
  /\ ~debounceTimer.pending
  /\ lastFilterCall.method = "setRegion"
  /\ filtersState.region = Str("north-america")
  /\ filtersState.impactCategory = Str("conservation")

\* the options of the two dropdowns: "All" (null) and the listed values
CategoryOptions == {Null} \cup {Str(impactCategories[i]) : i \in 1..Len(impactCategories)}
RegionOptions == {Null} \cup {Str(regions[i]) : i \in 1..Len(regions)}

\* the filters of a state that are not null
NonNullFilters(state) == {k \in {"region", "impactCategory"} : state[k] # Null}

====
